---- MODULE Spec2Model ----
(***************************************************************************)
(* Model of the retrieval-and-fallback pipeline of ai-agent-mvp:           *)
(* the /chat endpoint and ChatOrchestrator (src/chat_service/main.py),     *)
(* the acceptance rule of KnowledgeBaseService.query                       *)
(* (src/knowledge_base_service/main.py) and the history store written by   *)
(* POST /history (src/history_service/main.py).                            *)
(*                                                                         *)
(* A Python str is a sequence of chunks (each chunk a non-empty piece of   *)
(* text), so concatenation is \o and the empty string is << >>.  A JSON    *)
(* value is a record [t, s]: t its type, s its text when it is a string.   *)
(***************************************************************************)
EXTENDS Integers, Sequences, FiniteSets, TLC

VARIABLES
    pc,             \* per request: position in chat() / process_message
    message,        \* per request: the message argument of process_message
    chat_id,        \* per request: the chat_id local of process_message
    kb_response,    \* per request: the kb_response local (None or JSON body)
    response_text,  \* per request: the response_text local
    source,         \* per request: the source local
    result,         \* per request: what chat() sent back to the caller
    posted,         \* per request: JSON body of the POST /history it made
    calls,          \* per request: the collaborator calls made, in order
    kb_seen,        \* per request: how the KB service behaved
    search_seen,    \* per request: how the search service behaved
    hist_seen,      \* per request: how the history service behaved
    history,        \* the history collection (MongoDB), in insertion order
    uuid_next,      \* number of identities uuid4() has produced so far
    clock,          \* datetime.now(), in ticks
    store_results,  \* KB service: what collection.query returns for the query
    query_result,   \* KB service: what KnowledgeBaseService.query returned
    fetched,        \* history service: the last GET /history/<chat_id> and its reply
    added,          \* history service: the last POST /history made by a client
    search_run      \* search service: the GET /search under way or answered

reqvars == <<pc, message, chat_id, kb_response, response_text, source, result,
             posted, calls, kb_seen, search_seen, hist_seen>>
vars == <<pc, message, chat_id, kb_response, response_text, source, result,
          posted, calls, kb_seen, search_seen, hist_seen, history, uuid_next,
          clock, store_results, query_result, fetched, added, search_run>>
kbvars == <<store_results, query_result>>
histvars == <<fetched, added>>
chatvars == <<reqvars, history, uuid_next, clock>>

-----------------------------------------------------------------------------
(* Bounds of the model *)

MaxMsgLen == 1      \* longest message text, in characters
MaxResults == 4     \* longest result list of a search reply
MaxClock == 2       \* last tick of the clock
MaxDocs == 2        \* most candidates the store returns for a query

-----------------------------------------------------------------------------
(* JSON values and Python truthiness *)

Null == [t |-> "null", s |-> << >>]
Str(x) == [t |-> "str", s |-> x]
Num == [t |-> "num", s |-> << >>]       \* a non-zero JSON number

\* bool(v) of a JSON scalar: None and "" are falsy
Truthy(v) == (v.t = "str" /\ v.s # << >>) \/ v.t = "num"

\* chunks that consist of whitespace only
Whitespace == {" ", "   ", "\n", "\n\n"}

RECURSIVE LStrip(_)
LStrip(x) == IF x # << >> /\ Head(x) \in Whitespace THEN LStrip(Tail(x)) ELSE x

RECURSIVE RStrip(_)
RStrip(x) ==
    IF x # << >> /\ x[Len(x)] \in Whitespace
    THEN RStrip(SubSeq(x, 1, Len(x) - 1))
    ELSE x

\* str.strip()
Strip(x) == RStrip(LStrip(x))

\* a str is blank when it is empty or whitespace only
IsBlank(v) == v.t = "str" /\ Strip(v.s) = << >>

-----------------------------------------------------------------------------
(* Fixed sentences of the orchestrator *)

ApologyText ==
    <<"I'm sorry, I couldn't find information about that topic. Could you try rephrasing your question?">>
TechnicalDifficultiesText ==
    <<"I'm experiencing technical difficulties. Please try again later.">>
CannotFormatText ==
    <<"I found some information but cannot format it properly.">>
NoWebInfoText ==
    <<"I couldn't find relevant information on the web.">>

-----------------------------------------------------------------------------
(* What the collaborators can send *)

Chars == {" ", "a"}

RECURSIVE Texts(_)
Texts(n) ==
    IF n = 0 THEN {<< >>}
    ELSE Texts(n - 1) \cup {<<c>> \o x : c \in Chars, x \in {y \in Texts(n - 1) : Len(y) = n - 1}}

\* the message of a request: a str of up to MaxMsgLen characters, or a number
Messages == {Str(x) : x \in Texts(MaxMsgLen)} \cup {Num}

\* the chat_id of a request: absent (None), empty, or supplied
ChatIds == {Null, Str(<< >>), Str(<<"c1">>)}

\* the JSON body of POST /chat, as request.get_json() gives it:
\* kind "malformed" makes get_json raise, "object" is a dict with these keys
ChatData ==
    {[kind |-> "malformed", keys |-> {}, message |-> Null, chat_id |-> Null]}
    \cup {[kind |-> "object", keys |-> {}, message |-> Null, chat_id |-> Null]}
    \cup {[kind |-> "object", keys |-> {"message", "chat_id"}, message |-> m, chat_id |-> c] :
            m \in Messages, c \in ChatIds}

\* a JSON body of the KB service: a dict with the keys it has, or a list
NoneBody == [t |-> "none", keys |-> {}, found |-> FALSE, answer |-> Null, len |-> 0]
KbDict(keys, found, answer) ==
    [t |-> "dict", keys |-> keys, found |-> found, answer |-> answer, len |-> 0]
KbList(n) == [t |-> "list", keys |-> {}, found |-> FALSE, answer |-> Null, len |-> n]

KbAnswerFor(m) == Str(<<"KB:">> \o m.s)

KbBodies(m) ==
    { KbDict({"found", "answer"}, FALSE, Null),
      KbDict({"found", "answer"}, TRUE, KbAnswerFor(m)),
      KbDict({"found", "answer"}, TRUE, Null),
      KbDict({"found", "answer"}, TRUE, Str(<< >>)),
      KbDict({"found"}, TRUE, Null),
      KbDict({}, FALSE, Null),
      KbList(0),
      KbList(1) }

\* behaviour of an HTTP call as requests sees it: a reply with a status and
\* a JSON body, a timeout, a refused connection (both RequestException), or
\* an exception that is no RequestException
Transport == {"timeout", "refused"}

KbBehaviours(m) ==
    {[kind |-> k, status |-> 0, body |-> NoneBody] : k \in Transport \cup {"exception"}}
    \cup {[kind |-> "reply", status |-> 500, body |-> NoneBody]}
    \cup {[kind |-> "reply", status |-> 200, body |-> b] : b \in KbBodies(m)}

NoKbCall == [kind |-> "none", status |-> 0, body |-> NoneBody]

\* one search result: the keys it has and their values
SearchResult(i) ==
    [keys |-> IF i % 2 = 1 THEN {"title", "snippet", "url"} ELSE {"title", "snippet"},
     title |-> <<"T" \o ToString(i)>>,
     snippet |-> <<"S" \o ToString(i)>>,
     url |-> IF i % 2 = 1 THEN <<"U" \o ToString(i)>> ELSE << >>]

ResultList(n) == [i \in 1..n |-> SearchResult(i)]

NoneSearch == [t |-> "none", keys |-> {}, results |-> << >>, len |-> 0]
SearchDict(keys, results) ==
    [t |-> "dict", keys |-> keys, results |-> results, len |-> 0]
SearchList(n) == [t |-> "list", keys |-> {}, results |-> << >>, len |-> n]

SearchBodies ==
    {SearchDict({"success", "results"}, ResultList(n)) : n \in 0..MaxResults}
    \cup { SearchDict({"success"}, << >>),
           SearchDict({}, << >>),
           SearchList(1) }

SearchBehaviours ==
    {[kind |-> k, status |-> 0, body |-> NoneSearch] : k \in Transport \cup {"exception"}}
    \cup {[kind |-> "reply", status |-> 400, body |-> NoneSearch]}
    \cup {[kind |-> "reply", status |-> 200, body |-> b] : b \in SearchBodies}

NoSearchCall == [kind |-> "none", status |-> 0, body |-> NoneSearch]

\* behaviour of POST /history: stored tells whether insert_one took place
\* (a reply that times out may still have been stored)
HistoryBehaviours ==
    { [kind |-> "reply", status |-> 201, stored |-> TRUE],
      [kind |-> "reply", status |-> 500, stored |-> FALSE],
      [kind |-> "reply", status |-> 503, stored |-> FALSE],
      [kind |-> "timeout", status |-> 0, stored |-> FALSE],
      [kind |-> "timeout", status |-> 0, stored |-> TRUE],
      [kind |-> "refused", status |-> 0, stored |-> FALSE],
      [kind |-> "exception", status |-> 0, stored |-> FALSE] }

NoHistoryCall == [kind |-> "none", status |-> 0, stored |-> FALSE]

-----------------------------------------------------------------------------
(* ChatOrchestrator: the pure parts *)

\* bool(body) of a JSON body: None, {} and [] are falsy
BodyTruthy(b) == (b.t = "dict" /\ b.keys # {}) \/ (b.t = "list" /\ b.len > 0)

\* body.get(...) raises AttributeError unless body is a dict
GetRaises(b) == b.t # "dict"

\* message[:50] raises TypeError unless message is a str
SliceRaises(m) == m.t # "str"

\* _query_knowledge_base raising when the reply carries an 'error' field
QueryKnowledgeBase_RaiseOnErrorKey(beh) ==
    CASE beh.kind = "exception" -> [raised |-> TRUE, value |-> NoneBody]
      [] beh.kind \in Transport -> [raised |-> FALSE, value |-> NoneBody]
      [] beh.kind = "reply" /\ beh.status = 200 ->
            [raised |-> "error" \in beh.body.keys, value |-> beh.body]
      [] OTHER -> [raised |-> FALSE, value |-> NoneBody]

\* _query_knowledge_base with response.raise_for_status() in place of the
\* status test: a status other than 200 raises
QueryKnowledgeBase_RaiseForStatus(beh) ==
    CASE beh.kind = "exception" -> [raised |-> TRUE, value |-> NoneBody]
      [] beh.kind \in Transport -> [raised |-> FALSE, value |-> NoneBody]
      [] beh.kind = "reply" /\ beh.status = 200 -> [raised |-> FALSE, value |-> beh.body]
      [] OTHER -> [raised |-> TRUE, value |-> NoneBody]

\* _query_knowledge_base catching only ConnectionError: a timeout escapes
QueryKnowledgeBase_TimeoutEscapes(beh) ==
    CASE beh.kind \in {"exception", "timeout"} -> [raised |-> TRUE, value |-> NoneBody]
      [] beh.kind = "refused" -> [raised |-> FALSE, value |-> NoneBody]
      [] beh.kind = "reply" /\ beh.status = 200 -> [raised |-> FALSE, value |-> beh.body]
      [] OTHER -> [raised |-> FALSE, value |-> NoneBody]

\* _query_knowledge_base: [raised, value]; value is the JSON body of a 200
\* reply and None otherwise; a RequestException is caught, others escape
QueryKnowledgeBase(beh) ==
    CASE beh.kind = "exception" -> [raised |-> TRUE, value |-> NoneBody]
      [] beh.kind \in Transport -> [raised |-> FALSE, value |-> NoneBody]
      [] beh.kind = "reply" /\ beh.status = 200 -> [raised |-> FALSE, value |-> beh.body]
      [] OTHER -> [raised |-> FALSE, value |-> NoneBody]

\* _perform_web_search with response.raise_for_status() outside the try:
\* a status other than 200 raises
PerformWebSearch_RaiseForStatus(beh) ==
    CASE beh.kind = "exception" -> [raised |-> TRUE, value |-> NoneSearch]
      [] beh.kind \in Transport -> [raised |-> FALSE, value |-> NoneSearch]
      [] beh.kind = "reply" /\ beh.status = 200 -> [raised |-> FALSE, value |-> beh.body]
      [] OTHER -> [raised |-> TRUE, value |-> NoneSearch]

\* _perform_web_search with 'except Exception': every exception is swallowed
PerformWebSearch_CatchAll(beh) ==
    CASE beh.kind = "reply" /\ beh.status = 200 -> [raised |-> FALSE, value |-> beh.body]
      [] OTHER -> [raised |-> FALSE, value |-> NoneSearch]

\* _perform_web_search: as _query_knowledge_base, for the search service
PerformWebSearch(beh) ==
    CASE beh.kind = "exception" -> [raised |-> TRUE, value |-> NoneSearch]
      [] beh.kind \in Transport -> [raised |-> FALSE, value |-> NoneSearch]
      [] beh.kind = "reply" /\ beh.status = 200 -> [raised |-> FALSE, value |-> beh.body]
      [] OTHER -> [raised |-> FALSE, value |-> NoneSearch]

\* the condition of line 52: kb_response and kb_response.get('found')
KbFoundRaises(kb) == BodyTruthy(kb) /\ GetRaises(kb)
\* line 52 reading a key the reply never has: the reply is never accepted
KbFound_WrongKey(kb) == BodyTruthy(kb) /\ "Found" \in kb.keys /\ kb.found
\* line 52 without the test of 'found': any reply with a body is accepted
KbFound_AnyReply(kb) == BodyTruthy(kb)
KbFound(kb) == BodyTruthy(kb) /\ "found" \in kb.keys /\ kb.found

\* line 53 reading a key the reply never has: always the default sentence
KbAnswer_IgnoresReply(kb) == IF "answr" \in kb.keys THEN kb.answer ELSE Str(CannotFormatText)

\* line 53: kb_response.get('answer', <default>)
KbAnswer(kb) == IF "answer" \in kb.keys THEN kb.answer ELSE Str(CannotFormatText)

\* the first n results: results[:n]
\* results[:n] without the cut: every result is kept
Take_All(results, n) == results

\* results[:n]
Take(results, n) == SubSeq(results, 1, IF Len(results) < n THEN Len(results) ELSE n)

TopResults == 3

\* one rendered result of _format_search_response (lines 124-132)
FormatResult(i, res) ==
    LET title == IF "title" \in res.keys THEN res.title ELSE <<"No title">>
        snippet == IF "snippet" \in res.keys THEN res.snippet ELSE <<"No description available">>
        url == IF "url" \in res.keys THEN res.url ELSE << >>
    IN  <<ToString(i), ". **">> \o title \o <<"**", "\n">>
        \o <<"   ">> \o snippet \o <<"\n">>
        \o (IF url # << >> THEN <<"   ", "Source: ">> \o url \o <<"\n">> ELSE << >>)
        \o <<"\n">>

RECURSIVE FormatResults(_, _)
FormatResults(results, i) ==
    IF i > Len(results) THEN << >>
    ELSE FormatResult(i, results[i]) \o FormatResults(results, i + 1)

\* _format_search_response raises when search_data is truthy and no dict
FormatSearchRaises(search_data) == BodyTruthy(search_data) /\ GetRaises(search_data)

\* _format_search_response
FormatSearchResponse(search_data, original_query) ==
    IF ~BodyTruthy(search_data) \/ "results" \notin search_data.keys
       \/ search_data.results = << >>
    THEN NoWebInfoText
    ELSE Strip(<<"Based on web search results for '">> \o original_query.s \o <<"':", "\n\n">>
               \o FormatResults(Take(search_data.results, TopResults), 1))

\* the outcome built at lines 70-75
Outcome(text, cid, src, now) ==
    [kind |-> "outcome", status |-> 200, response |-> text, chat_id |-> cid,
     source |-> src, timestamp |-> now]

\* the outcome built by the except branch, lines 79-84
ErrorOutcome(cid, now) ==
    Outcome(Str(TechnicalDifficultiesText), cid, "error", now)

\* an error reply of the /chat endpoint: jsonify({'error': ...}), status
HttpError(status, text) ==
    [kind |-> "http_error", status |-> status, response |-> Str(text), chat_id |-> Null,
     source |-> "none", timestamp |-> 0]

NoResult ==
    [kind |-> "none", status |-> 0, response |-> Null, chat_id |-> Null,
     source |-> "none", timestamp |-> 0]

\* the JSON body _store_interaction posts (lines 141-147)
HistoryPayload(cid, msg, text, src, now) ==
    [chat_id |-> cid, message |-> msg, response |-> text, source |-> src, timestamp |-> now]

NoPayload == HistoryPayload(Null, Null, Null, "none", 0)

\* _store_interaction catching only ConnectionError: a timeout escapes
StoreInteractionRaises_OnTimeout(beh) == beh.kind \in {"exception", "timeout"}

\* _store_interaction lets through what is no RequestException
StoreInteractionRaises(beh) == beh.kind = "exception"

-----------------------------------------------------------------------------
(* The history service: add_history, store_interaction, get_history *)

HistoryKeys == {"chat_id", "message", "response", "source", "timestamp"}

\* line 121 without the test: no POST is refused
AddHistoryRejects_Never(keys) == FALSE

\* line 121: the POST is refused unless it has chat_id, message and response
AddHistoryRejects(keys) == ~({"chat_id", "message", "response"} \subseteq keys)

\* add_history with the arguments of store_interaction in the wrong order
Interaction_Swapped(keys, data, now) ==
    [chat_id |-> data.chat_id,
     message |-> data.response,
     response |-> data.message,
     source |-> IF "source" \in keys THEN data.source ELSE "unknown",
     timestamp |-> IF "timestamp" \in keys THEN data.timestamp ELSE now]

\* the interaction add_history hands to store_interaction (lines 124-128)
\* and store_interaction builds (lines 57-63), for a JSON body with these keys
Interaction(keys, data, now) ==
    [chat_id |-> data.chat_id,
     message |-> data.message,
     response |-> data.response,
     source |-> IF "source" \in keys THEN data.source ELSE "unknown",
     timestamp |-> IF "timestamp" \in keys THEN data.timestamp ELSE now]

\* collection.insert_one replacing the record of the same chat_id (an upsert)
InsertOne_Upsert(collection, doc) ==
    IF \E i \in DOMAIN collection : collection[i].chat_id = doc.chat_id
    THEN [i \in DOMAIN collection |->
            IF collection[i].chat_id = doc.chat_id THEN doc ELSE collection[i]]
    ELSE Append(collection, doc)

\* collection.insert_one (line 65): the document is added to the collection
InsertOne(collection, doc) == Append(collection, doc)

\* a JSON body of POST /history sent by a client: kind "malformed" makes
\* get_json raise, "object" is a dict with these keys
HistoryPost(kind, keys, cid, ts) ==
    [kind |-> kind, keys |-> keys, chat_id |-> cid, message |-> Str(<<"m">>),
     response |-> Str(<<"p">>), source |-> "test", timestamp |-> ts]

OtherChat == Str(<<"c2">>)

HistoryPosts ==
    {HistoryPost("malformed", {}, Null, 0)}
    \cup {HistoryPost("object", HistoryKeys, OtherChat, ts) : ts \in {0, MaxClock}}
    \cup {HistoryPost("object", keys, OtherChat, 0) :
            keys \in {HistoryKeys \ {"timestamp", "source"}, HistoryKeys \ {"message"}, {}}}

\* how the history service is when a call reaches it: history_service is
\* None (line 87-91), the MongoDB operation raises, or all is well
ServiceStates == {"ok", "mongo_fails", "unavailable"}

\* the status add_history answers with (lines 113-140)
AddHistoryStatus(data, service) ==
    IF service = "unavailable" THEN 503
    ELSE IF data.kind = "malformed" THEN 500
    ELSE IF AddHistoryRejects(data.keys) THEN 400
    ELSE IF service = "mongo_fails" THEN 500
    ELSE 201

NotAdded == [data |-> HistoryPost("none", {}, Null, 0), status |-> 0]

\* a document as the collection holds it: insert_one gave it an _id, an
\* ObjectId (the n-th one made)
ObjectId(n) == [t |-> "ObjectId", n |-> n]
Document(doc, n) ==
    [chat_id |-> doc.chat_id, message |-> doc.message, response |-> doc.response,
     source |-> doc.source, timestamp |-> doc.timestamp, id |-> ObjectId(n)]

\* collection.find({'chat_id': chat_id}): the matching documents
Find(collection, cid) ==
    LET documents == [i \in DOMAIN collection |-> Document(collection[i], i)]
        Matches(d) == d.chat_id = cid
    IN  SelectSeq(documents, Matches)

\* cursor.sort("timestamp", -1): the orders MongoDB may return the documents
\* in, any one with the timestamps descending (equal ones in any order)
SortDescending(documents) ==
    LET n == Len(documents)
        orders == {p \in [1..n -> 1..n] :
                      /\ \A i, j \in 1..n : p[i] = p[j] => i = j
                      /\ \A i \in 1..(n - 1) :
                            documents[p[i]].timestamp >= documents[p[i + 1]].timestamp}
    IN  {[i \in 1..n |-> documents[p[i]]] : p \in orders}

\* json_util.dumps writes an ObjectId as {"$oid": ...}; json_util.loads
\* reads {"$oid": ...} back as an ObjectId
JsonUtilDumps(documents) ==
    [i \in DOMAIN documents |->
        [documents[i] EXCEPT !.id = [t |-> "$oid", n |-> documents[i].id.n]]]
JsonUtilLoads(text) ==
    [i \in DOMAIN text |->
        [text[i] EXCEPT !.id = IF text[i].id.t = "$oid" THEN ObjectId(text[i].id.n)
                                ELSE text[i].id]]

\* HistoryService.get_history given the order the cursor came in
GetHistory(history_list, service) ==
    IF service = "mongo_fails"
    THEN [success |-> FALSE, history |-> << >>]
    ELSE [success |-> TRUE, history |-> JsonUtilLoads(JsonUtilDumps(history_list))]

\* jsonify raises TypeError on a value that is an ObjectId
JsonifyRaises(res) ==
    \E i \in DOMAIN res.history : res.history[i].id.t = "ObjectId"

\* the reply of GET /history/<chat_id> (lines 142-157)
GetHistoryReply(cid, res, service) ==
    IF service = "unavailable"
    THEN [chat_id |-> cid, served |-> FALSE, result |-> res, status |-> 503, body |-> << >>]
    ELSE IF ~res.success
    THEN [chat_id |-> cid, served |-> FALSE, result |-> res, status |-> 404, body |-> << >>]
    ELSE IF JsonifyRaises(res)
    THEN [chat_id |-> cid, served |-> TRUE, result |-> res, status |-> 500, body |-> << >>]
    ELSE [chat_id |-> cid, served |-> TRUE, result |-> res, status |-> 200,
          body |-> res.history]

NotFetched ==
    [chat_id |-> Null, served |-> FALSE, result |-> [success |-> FALSE, history |-> << >>],
     status |-> 0, body |-> << >>]

\* uuid.uuid4() handing out one identity over and over
Uuid_Fixed(n) == Str(<<"uuid-0">>)

\* uuid.uuid4(): the n-th identity produced
Uuid(n) == Str(<<"uuid-" \o ToString(n)>>)

-----------------------------------------------------------------------------
(* KnowledgeBaseService.query and _format_answer.  Distances and scores   *)
(* are in hundredths: 70 is 0.7.                                           *)

SimilarityThreshold == 70
ExcerptLen == 150
ContentLen == 200

MinOf(a, b) == IF a < b THEN a ELSE b

\* text[:n]
Prefix(text, n) == SubSeq(text, 1, MinOf(Len(text), n))

\* metadata of a document: the keys it has and its category
Metadata(keys, category) == [keys |-> keys, category |-> category]

\* line 202 without the default: a document without category gets an empty tag
FormatExcerpt_NoDefault(doc, metadata) ==
    <<"[">> \o metadata.category \o <<"] ">> \o Prefix(doc, ExcerptLen) \o <<"...">>

\* one line of additional context (lines 202-203)
FormatExcerpt(doc, metadata) ==
    LET category == IF "category" \in metadata.keys THEN metadata.category ELSE <<"General">>
    IN  <<"[">> \o category \o <<"] ">> \o Prefix(doc, ExcerptLen) \o <<"...">>

\* "\n".join of the excerpts of documents[i..], metadatas[i..]
RECURSIVE JoinExcerpts(_, _, _)
JoinExcerpts(documents, metadatas, i) ==
    IF i > MinOf(Len(documents), Len(metadatas)) THEN << >>
    ELSE (IF i > 2 THEN <<"\n">> ELSE << >>)
         \o FormatExcerpt(documents[i], metadatas[i])
         \o JoinExcerpts(documents, metadatas, i + 1)

\* _format_answer returning the top document alone
FormatAnswer_TopOnly(documents, metadatas) ==
    IF documents = << >>
    THEN <<"I couldn't find relevant information in the knowledge base.">>
    ELSE documents[1]

\* _format_answer
FormatAnswer(documents, metadatas) ==
    IF documents = << >>
    THEN <<"I couldn't find relevant information in the knowledge base.">>
    ELSE IF Len(documents) > 1 /\ MinOf(Len(documents), Len(metadatas)) > 1
    THEN documents[1] \o <<"\n\n", "Additional related information:", "\n">>
         \o JoinExcerpts(documents, metadatas, 2)
    ELSE documents[1]

\* the reply of query when the match is refused or the lookup failed
KbRejected(extra) ==
    [found |-> FALSE, answer |-> Null, sources |-> << >>, total_results |-> 0,
     keys |-> {"found", "answer", "sources", "query"} \cup extra]

\* line 151 with >= : the best match is refused at the threshold too
TooFar_AtThreshold(best_distance) == best_distance >= SimilarityThreshold

\* line 151: the best match is refused when its distance is above the threshold
TooFar(best_distance) == best_distance > SimilarityThreshold

\* one entry of 'sources' (lines 165-170)
SourceEntry(i, doc, metadata, distance) ==
    [rank |-> i,
     content |-> IF Len(doc) > ContentLen THEN Prefix(doc, ContentLen) \o <<"...">> ELSE doc,
     metadata |-> metadata,
     similarity_score |-> 100 - distance]

\* KnowledgeBaseService.query on what collection.query returned
Query(results) ==
    IF results.raised THEN KbRejected({"error"})
    ELSE IF results.documents = << >> THEN KbRejected({})
    ELSE LET documents == results.documents
             metadatas == results.metadatas
             distances == results.distances
             best_distance == IF distances # << >> THEN distances[1] ELSE 100
             n == MinOf(Len(documents), MinOf(Len(metadatas), Len(distances)))
         IN  IF TooFar(best_distance) THEN KbRejected({"reason"})
             ELSE [found |-> TRUE,
                   answer |-> Str(FormatAnswer(documents, metadatas)),
                   sources |-> [i \in 1..n |->
                                  SourceEntry(i, documents[i], metadatas[i], distances[i])],
                   total_results |-> Len(documents),
                   keys |-> {"found", "answer", "sources", "query", "total_results"}]

\* what the store can return: up to MaxDocs candidates, nearest first
LongDoc == [i \in 1..(ContentLen + 1) |-> "x"]
DocTexts == {<<"d">>, <<"e", "e">>, LongDoc}
Metadatas == {Metadata({"category"}, <<"AI">>), Metadata({}, << >>)}
Distances == {0, 69, 70, 71, 130}

Ascending(distances) ==
    \A i \in 1..(Len(distances) - 1) : distances[i] <= distances[i + 1]

StoreResults ==
    {[raised |-> TRUE, documents |-> << >>, metadatas |-> << >>, distances |-> << >>]}
    \cup UNION {
        {[raised |-> FALSE, documents |-> d, metadatas |-> m, distances |-> x] :
            d \in [1..n -> DocTexts], m \in [1..n -> Metadatas],
            x \in {y \in [1..n -> Distances] : Ascending(y)}}
        : n \in 0..MaxDocs}

NoStoreResults ==
    [raised |-> FALSE, documents |-> << >>, metadatas |-> << >>, distances |-> << >>]

NotQueried ==
    [found |-> FALSE, answer |-> Null, sources |-> << >>, total_results |-> 0, keys |-> {}]

\* POST /query reaching kb_service.query (line 326)
KbQuery ==
    /\ query_result = NotQueried
    /\ query_result' = Query(store_results)
    /\ UNCHANGED <<chatvars, store_results, histvars, search_run>>

\* the JSON body of a reply of query, as the chat service reads it
KbReplyBody(reply) == KbDict(reply.keys, reply.found, reply.answer)

\* POST /query as the chat service sees it (lines 308-332): a query that is
\* no str makes query_text.strip() raise (500), a blank one is refused (400),
\* any other gets the reply of kb_service.query
KbServiceReply(query_text, reply) ==
    IF query_text.t # "str" THEN [kind |-> "reply", status |-> 500, body |-> NoneBody]
    ELSE IF IsBlank(query_text) THEN [kind |-> "reply", status |-> 400, body |-> NoneBody]
    ELSE [kind |-> "reply", status |-> 200, body |-> KbReplyBody(reply)]

-----------------------------------------------------------------------------
(* The search service: web_search, SearchService.search, _sanitize_query,  *)
(* _search_duckduckgo, _search_duckduckgo_html, _get_mock_results.  A      *)
(* query is a sequence of characters.                                      *)

MaxQueryLen == 3
MaxTopics == 2
MaxHits == 3
QueryCap == 200
DefaultMaxResults == 5
MockCap == 3

\* the characters of a query: letters, blank, newline, a special character
\* and the hyphen
QueryChars == {"a", "I", " ", "\n", "!", "-"}

\* \w, \s and the two characters _sanitize_query keeps besides (line 82)
IsWordChar(c) == c \in {"a", "i", "I", "c", "o", "d", "n", "g"}
IsSpaceChar(c) == c \in {" ", "\n"}
Kept(c) == IsWordChar(c) \/ IsSpaceChar(c) \/ c \in {"-", "+"}

\* re.sub(r'[^\w\s\-\+]', '', text)
RemoveSpecial(text) == SelectSeq(text, Kept)

\* re.sub(r'\s+', ' ', text): every run of whitespace becomes one blank
CollapseSpaces(text) ==
    LET marked == [i \in DOMAIN text |->
                      IF ~IsSpaceChar(text[i]) THEN text[i]
                      ELSE IF i < Len(text) /\ IsSpaceChar(text[i + 1]) THEN "drop"
                      ELSE " "]
        Stays(c) == c # "drop"
    IN  SelectSeq(marked, Stays)

\* _sanitize_query without line 83: runs of whitespace are left as they are
SanitizeQuery_NoCollapse(query) ==
    IF query = << >> THEN << >>
    ELSE Prefix(RemoveSpecial(Strip(query)), QueryCap)

\* _sanitize_query for a str (lines 76-85)
SanitizeQuery(query) ==
    IF query = << >> THEN << >>
    ELSE Prefix(CollapseSpaces(RemoveSpecial(Strip(query))), QueryCap)

\* the queries a caller sends: every text of up to MaxQueryLen characters,
\* one longer than the cap, one longer than the cap with blanks in it, and
\* one with a keyword of the second list of _get_mock_results
LongQuery == [i \in 1..(QueryCap + 1) |-> "a"]
LongSpacedQuery == [i \in 1..(QueryCap + 2) |-> IF i \in {QueryCap - 1, QueryCap} THEN " " ELSE "a"]
CodingQuery == <<"c", "o", "d", "i", "n", "g">>

RECURSIVE QueryTexts(_)
QueryTexts(n) ==
    IF n = 0 THEN {<< >>}
    ELSE QueryTexts(n - 1)
         \cup {<<c>> \o x : c \in QueryChars, x \in {y \in QueryTexts(n - 1) : Len(y) = n - 1}}

Queries == QueryTexts(MaxQueryLen) \cup {LongQuery, LongSpacedQuery, CodingQuery}

\* the max_results parameter of the request: absent, no integer, an integer
MaxResultsParams ==
    {[kind |-> "absent", n |-> 0], [kind |-> "text", n |-> 0]}
    \cup {[kind |-> "int", n |-> n] : n \in {0, 1, 2, 11}}

\* lines 278-283: int(), clamped to 1..10; 5 when absent or no integer
EffectiveMaxResults(param) ==
    IF param.kind # "int" THEN DefaultMaxResults
    ELSE IF param.n < 1 THEN 1
    ELSE IF param.n > 10 THEN 10
    ELSE param.n

\* one result: its source tag and its place in what the stage found
LiveResult(tag, k) == [source |-> tag, k |-> k]

\* what the instant-answer API sends: an error (timeout, HTTP error, no
\* JSON), or data with or without AbstractText and with related topics,
\* each with Text ("text") or without ("notext")
RECURSIVE TopicLists(_)
TopicLists(n) ==
    IF n = 0 THEN {<< >>}
    ELSE TopicLists(n - 1)
         \cup {<<c>> \o x : c \in {"text", "notext"},
                            x \in {y \in TopicLists(n - 1) : Len(y) = n - 1}}

ApiBehaviours ==
    {[kind |-> "error", abstract |-> FALSE, topics |-> << >>]}
    \cup {[kind |-> "data", abstract |-> a, topics |-> t] :
            a \in BOOLEAN, t \in TopicLists(MaxTopics)}

\* the results of the related topics among the first n (lines 114-121)
RelatedResults(topics, n) ==
    LET taken == Prefix(topics, n)
        HasText(t) == t = "text"
        kept == SelectSeq(taken, HasText)
    IN  [k \in 1..Len(kept) |-> LiveResult("DuckDuckGo Related Topic", k)]

\* the results parsed from the API data (lines 103-125)
ApiResults(beh, max_results) ==
    IF beh.kind = "error" THEN << >>
    ELSE LET instant == IF beh.abstract
                        THEN <<LiveResult("DuckDuckGo Instant Answer", 0)>>
                        ELSE << >>
             results == instant \o RelatedResults(beh.topics, max_results - Len(instant))
         IN  Prefix(results, max_results)

\* what the HTML page gives: an error, or a page with this many titles
HtmlBehaviours ==
    {[kind |-> "error", titles |-> 0]}
    \cup {[kind |-> "page", titles |-> n] : n \in 0..MaxHits}

\* _search_duckduckgo_html (lines 137-173)
HtmlResults(beh, max_results) ==
    IF beh.kind = "error" THEN << >>
    ELSE [k \in 1..MinOf(beh.titles, max_results) |-> LiveResult("DuckDuckGo Search", k)]

\* query.lower(), and a keyword being in it
Lower(text) == [i \in DOMAIN text |-> IF text[i] = "I" THEN "i" ELSE text[i]]
HasKeyword(text, keyword) ==
    \E i \in 1..Len(text) :
        /\ i + Len(keyword) - 1 <= Len(text)
        /\ SubSeq(text, i, i + Len(keyword) - 1) = keyword

\* the keywords of _get_mock_results that these queries can hold: 'ai' of
\* the first list, 'coding' of the second
AiKeywords == {<<"a", "i">>}
TechKeywords == {<<"c", "o", "d", "i", "n", "g">>}

\* _get_mock_results finding nothing
MockResults_Empty(query) == << >>

\* _get_mock_results tagging its results as those of the HTML stage
MockResults_Untagged(query) ==
    [k \in 1..2 |-> LiveResult("DuckDuckGo Search", k)]

\* _get_mock_results (lines 175-242): three results for a query with a
\* keyword of the first list, two for one of the second list, two for any
\* other, cut to three
MockResults(query) ==
    LET query_lower == Lower(query)
        found == IF \E k \in AiKeywords : HasKeyword(query_lower, k) THEN 3
                 ELSE IF \E k \in TechKeywords : HasKeyword(query_lower, k) THEN 2
                 ELSE 2
    IN  Prefix([k \in 1..found |-> LiveResult("Mock Search Result", k)], MockCap)

\* the replies of search and of the endpoint
SearchReply(status, success, results) ==
    [status |-> status, success |-> success, results |-> results,
     total_results |-> Len(results)]
NoSearchReply == SearchReply(0, FALSE, << >>)

\* a GET /search: where it is, what was asked, what was sent to the live
\* backend (stage and query string), and the reply
SearchRun(at, query, max_results, clean, sent, reply) ==
    [pc |-> at, query |-> query, max_results |-> max_results, clean |-> clean,
     sent |-> sent, reply |-> reply]
NoSearchRun == SearchRun("idle", << >>, 0, << >>, << >>, NoSearchReply)

-----------------------------------------------------------------------------
(* The /chat endpoint and ChatOrchestrator.process_message, one request r *)

Requests == {"r1"}

Set(f, r, v) == [f EXCEPT ![r] = v]

\* the except branch of process_message (lines 77-84)
ExceptHandler(r) ==
    /\ result' = Set(result, r, ErrorOutcome(chat_id[r], clock))
    /\ pc' = Set(pc, r, "done")

\* line 256: the request is refused when it has no body or no 'message' key
MessageMissing(data) == "message" \notin data.keys

\* chat() up to the call of process_message, and lines 45-46 of the latter
Chat(r, data) ==
    /\ pc[r] = "idle"
    /\ IF data.kind = "malformed"
       THEN /\ result' = Set(result, r, HttpError(500, <<"Internal server error">>))
            /\ pc' = Set(pc, r, "done")
            /\ UNCHANGED <<message, chat_id, uuid_next>>
       ELSE IF MessageMissing(data)
       THEN /\ result' = Set(result, r, HttpError(400, <<"Message is required">>))
            /\ pc' = Set(pc, r, "done")
            /\ UNCHANGED <<message, chat_id, uuid_next>>
       ELSE LET cid == IF "chat_id" \in data.keys THEN data.chat_id ELSE Null
            IN  /\ message' = Set(message, r, data.message)
                /\ IF Truthy(cid)
                   THEN chat_id' = Set(chat_id, r, cid) /\ UNCHANGED uuid_next
                   ELSE /\ chat_id' = Set(chat_id, r, Uuid(uuid_next + 1))
                        /\ uuid_next' = uuid_next + 1
                /\ pc' = Set(pc, r, "kb_lookup")
                /\ UNCHANGED result
    /\ UNCHANGED <<kb_response, response_text, source, posted, calls, kb_seen,
                   search_seen, hist_seen, history, clock, kbvars, histvars, search_run>>

\* lines 50-55: the KB lookup and the decision on its reply
KbLookup(r, beh) ==
    /\ pc[r] = "kb_lookup"
    /\ calls' = Set(calls, r, Append(calls[r], "kb"))
    /\ kb_seen' = Set(kb_seen, r, beh)
    /\ LET q == QueryKnowledgeBase(beh)
           kb == q.value
       IN  /\ kb_response' = Set(kb_response, r, kb)
           /\ IF q.raised \/ KbFoundRaises(kb)
              THEN ExceptHandler(r) /\ UNCHANGED <<response_text, source>>
              ELSE IF KbFound(kb)
              THEN /\ response_text' = Set(response_text, r, KbAnswer(kb))
                   /\ source' = Set(source, r, "knowledge_base")
                   /\ IF SliceRaises(message[r])
                      THEN ExceptHandler(r)
                      ELSE pc' = Set(pc, r, "record") /\ UNCHANGED result
              ELSE /\ pc' = Set(pc, r, "web_lookup")
                   /\ UNCHANGED <<response_text, source, result>>
    /\ UNCHANGED <<message, chat_id, posted, search_seen, hist_seen, history,
                   uuid_next, clock, kbvars, histvars, search_run>>

\* lines 58-65: the web lookup, entered from the else branch of line 56
WebLookup(r, beh) ==
    /\ pc[r] = "web_lookup"
    /\ calls' = Set(calls, r, Append(calls[r], "web"))
    /\ search_seen' = Set(search_seen, r, beh)
    /\ LET q == PerformWebSearch(beh)
           search_response == q.value
       IN  IF q.raised \/ FormatSearchRaises(search_response)
           THEN ExceptHandler(r) /\ UNCHANGED <<response_text, source>>
           ELSE IF BodyTruthy(search_response)
           THEN /\ response_text' =
                      Set(response_text, r, Str(FormatSearchResponse(search_response, message[r])))
                /\ source' = Set(source, r, "web_search")
                /\ IF SliceRaises(message[r])
                   THEN ExceptHandler(r)
                   ELSE pc' = Set(pc, r, "record") /\ UNCHANGED result
           ELSE /\ response_text' = Set(response_text, r, Str(ApologyText))
                /\ source' = Set(source, r, "fallback")
                /\ pc' = Set(pc, r, "record")
                /\ UNCHANGED result
    /\ UNCHANGED <<message, chat_id, kb_response, posted, kb_seen, hist_seen,
                   history, uuid_next, clock, kbvars, histvars, search_run>>

\* line 68 and _store_interaction: POST /history with the interaction; the
\* history service inserts it when the request gets through (lines 57-65
\* of the history service)
Record(r, beh) ==
    /\ pc[r] = "record"
    /\ calls' = Set(calls, r, Append(calls[r], "record"))
    /\ hist_seen' = Set(hist_seen, r, beh)
    /\ LET payload == HistoryPayload(chat_id[r], message[r], response_text[r], source[r], clock)
       IN  /\ posted' = Set(posted, r, payload)
           /\ history' = IF beh.stored
                         THEN InsertOne(history, Interaction(HistoryKeys, payload, clock))
                         ELSE history
    /\ IF StoreInteractionRaises(beh)
       THEN ExceptHandler(r)
       ELSE pc' = Set(pc, r, "return") /\ UNCHANGED result
    /\ UNCHANGED <<message, chat_id, kb_response, response_text, source, kb_seen,
                   search_seen, uuid_next, clock, kbvars, histvars, search_run>>

\* lines 70-75 and chat()'s jsonify(result): the outcome goes to the caller
Return(r) ==
    /\ pc[r] = "return"
    /\ result' = Set(result, r, Outcome(response_text[r], chat_id[r], source[r], clock))
    /\ pc' = Set(pc, r, "done")
    /\ UNCHANGED <<message, chat_id, kb_response, response_text, source, posted,
                   calls, kb_seen, search_seen, hist_seen, history, uuid_next, clock, kbvars, histvars, search_run>>

\* time passes
Tick ==
    /\ clock < MaxClock
    /\ clock' = clock + 1
    /\ UNCHANGED <<reqvars, history, uuid_next, kbvars, histvars, search_run>>

\* the state before any request arrived, for the requests R
InitChat(R) ==
    /\ pc = [r \in R |-> "idle"]
    /\ message = [r \in R |-> Null]
    /\ chat_id = [r \in R |-> Null]
    /\ kb_response = [r \in R |-> NoneBody]
    /\ response_text = [r \in R |-> Null]
    /\ source = [r \in R |-> "none"]
    /\ result = [r \in R |-> NoResult]
    /\ posted = [r \in R |-> NoPayload]
    /\ calls = [r \in R |-> << >>]
    /\ kb_seen = [r \in R |-> NoKbCall]
    /\ search_seen = [r \in R |-> NoSearchCall]
    /\ hist_seen = [r \in R |-> NoHistoryCall]
    /\ history = << >>
    /\ uuid_next = 0
    /\ clock = 0
    /\ fetched = NotFetched
    /\ added = NotAdded
    /\ search_run = NoSearchRun

Init ==
    /\ InitChat(Requests)
    /\ store_results = NoStoreResults
    /\ query_result = NotQueried

Next ==
    \/ \E r \in DOMAIN pc : \E data \in ChatData : Chat(r, data)
    \/ \E r \in DOMAIN pc : \E beh \in KbBehaviours(message[r]) : KbLookup(r, beh)
    \/ \E r \in DOMAIN pc : \E beh \in SearchBehaviours : WebLookup(r, beh)
    \/ \E r \in DOMAIN pc : \E beh \in HistoryBehaviours : Record(r, beh)
    \/ \E r \in DOMAIN pc : Return(r)
    \/ Tick

Spec == Init /\ [][Next]_vars

\* the KB service answering one query, for every reply of the store
InitKB ==
    /\ InitChat(Requests)
    /\ store_results \in StoreResults
    /\ query_result = NotQueried

NextKB == KbQuery

SpecKB == InitKB /\ [][NextKB]_vars

\* the chat service in front of the KB service: the reply to the KB lookup
\* is what query_knowledge_base answers for the message and the store's reply
LiveChatData ==
    {d \in ChatData : d.kind = "object" /\ d.keys # {} /\ d.chat_id = Str(<<"c1">>)}
LiveSearchBehaviours ==
    {b \in SearchBehaviours :
        \/ b.kind \in {"timeout", "exception"}
        \/ (b.kind = "reply" /\ b.status = 200 /\ b.body.t = "dict" /\ Len(b.body.results) = 2)}
LiveHistoryBehaviours ==
    {b \in HistoryBehaviours : b.kind \in {"reply", "exception"} /\ b.status # 503}

\* the query reaches kb_service.query (line 326)
ReachesQuery(query_text) == query_text.t = "str" /\ ~IsBlank(query_text)

InitLive ==
    /\ InitChat(Requests)
    /\ store_results \in StoreResults
    /\ query_result = NotQueried

NextLive ==
    \/ \E r \in DOMAIN pc : \E data \in LiveChatData : Chat(r, data)
    \/ \E r \in DOMAIN pc :
          /\ pc[r] = "kb_lookup" /\ ReachesQuery(message[r])
          /\ KbQuery
    \/ \E r \in DOMAIN pc :
          /\ ReachesQuery(message[r]) => query_result # NotQueried
          /\ KbLookup(r, KbServiceReply(message[r], query_result))
    \/ \E r \in DOMAIN pc : \E beh \in LiveSearchBehaviours : WebLookup(r, beh)
    \/ \E r \in DOMAIN pc : \E beh \in LiveHistoryBehaviours : Record(r, beh)
    \/ \E r \in DOMAIN pc : Return(r)

SpecLive == InitLive /\ [][NextLive]_vars

\* the same message sent twice, one request after the other: the second
\* request meets the search and history behaviour the first one met (when it
\* met one), and any behaviour of the KB service
TwinRequests == {"r1", "r2"}

InitTwin ==
    /\ InitChat(TwinRequests)
    /\ store_results = NoStoreResults
    /\ query_result = NotQueried

Replay(seen, nocall, all) == IF seen = nocall THEN all ELSE {seen}

NextTwin ==
    \/ \E data \in ChatData : Chat("r1", data)
    \/ \E beh \in KbBehaviours(message["r1"]) : KbLookup("r1", beh)
    \/ \E beh \in SearchBehaviours : WebLookup("r1", beh)
    \/ \E beh \in HistoryBehaviours : Record("r1", beh)
    \/ Return("r1")
    \/ /\ pc["r1"] = "done" /\ calls["r1"] # << >>
       /\ \E c \in ChatIds :
            Chat("r2", [kind |-> "object", keys |-> {"message", "chat_id"},
                        message |-> message["r1"], chat_id |-> c])
    \/ \E beh \in KbBehaviours(message["r2"]) : KbLookup("r2", beh)
    \/ \E beh \in Replay(search_seen["r1"], NoSearchCall, SearchBehaviours) :
            WebLookup("r2", beh)
    \/ \E beh \in Replay(hist_seen["r1"], NoHistoryCall, HistoryBehaviours) :
            Record("r2", beh)
    \/ Return("r2")

SpecTwin == InitTwin /\ [][NextTwin]_vars

-----------------------------------------------------------------------------
(* Properties *)

SourceKinds == {"knowledge_base", "web_search", "fallback", "error"}

Count(seq, x) == Cardinality({i \in DOMAIN seq : seq[i] = x})

\* process_message was entered for request r / has returned for request r
Entered(r) == pc[r] # "idle" /\ result[r].kind # "http_error"
Finished(r) == pc[r] = "done" /\ Entered(r)

\* the KB call failed in transport or came back with a status other than 200
KbFailed(beh) == beh.kind \in Transport \/ (beh.kind = "reply" /\ beh.status # 200)

\* the KB service answered found=false, as query does for a refused match
KbSaidNotFound(beh) ==
    beh.kind = "reply" /\ beh.status = 200
    /\ beh.body = KbDict({"found", "answer"}, FALSE, Null)

\* the KB service answered found=true
KbAccepted(beh) ==
    beh.kind = "reply" /\ beh.status = 200 /\ beh.body.t = "dict"
    /\ "found" \in beh.body.keys /\ beh.body.found

\* an exception that is no transport failure was raised in one of the steps
UnexpectedException(r) ==
    \/ kb_seen[r].kind = "exception"
    \/ search_seen[r].kind = "exception"
    \/ hist_seen[r].kind = "exception"
    \/ (kb_seen[r].kind = "reply" /\ kb_seen[r].status = 200
        /\ kb_seen[r].body.t = "list" /\ kb_seen[r].body.len > 0)
    \/ (search_seen[r].kind = "reply" /\ search_seen[r].status = 200
        /\ search_seen[r].body.t = "list" /\ search_seen[r].body.len > 0)

\* C1: process_message always returns an outcome {response, chat_id, source,
\* timestamp}, which chat() sends with status 200 (no exception escapes to
\* chat()'s own handler); and when an exception that is no transport failure
\* occurred in the KB lookup, the web lookup or the record step, the outcome
\* has source 'error' and the technical-difficulties sentence as response.
C1_NeverThrows ==
    \A r \in DOMAIN pc :
        /\ Finished(r) =>
             /\ result[r].kind = "outcome"
             /\ result[r].status = 200
             /\ result[r].source \in SourceKinds
             /\ result[r].chat_id = chat_id[r]
        /\ (pc[r] # "idle" /\ UnexpectedException(r)) =>
             /\ pc[r] = "done"
             /\ result[r].kind = "outcome"
             /\ result[r].source = "error"
             /\ result[r].response = Str(TechnicalDifficultiesText)

C1_Witness ==
    \E r \in DOMAIN pc :
        /\ Finished(r)
        /\ search_seen[r].kind = "exception"
        /\ result[r].source = "error"
        /\ result[r].response = Str(TechnicalDifficultiesText)

\* the search service replied 200 with a JSON object whose result list is empty
SearchRepliedEmpty(beh) ==
    beh.kind = "reply" /\ beh.status = 200 /\ beh.body.t = "dict"
    /\ "results" \in beh.body.keys /\ beh.body.results = << >>

\* C2: after the KB lookup is rejected, a web lookup that fails in transport
\* and one that succeeds with an empty result list both give source
\* 'fallback' with the apology sentence; source 'web_search' only comes with
\* a search reply of at least one result.
C2_EmptyResultsFallBack ==
    \A r \in DOMAIN pc :
        (Finished(r) /\ result[r].source # "error") =>
            /\ (search_seen[r].kind \in Transport \/ SearchRepliedEmpty(search_seen[r])) =>
                  /\ result[r].source = "fallback"
                  /\ result[r].response = Str(ApologyText)
            /\ result[r].source = "web_search" =>
                  /\ search_seen[r].kind = "reply"
                  /\ search_seen[r].body.results # << >>

\* C3: for every request that entered process_message the record step is
\* attempted exactly once, with the response and source of the outcome,
\* whatever the source kind (knowledge_base, web_search, fallback, error).
C3_RecordedExactlyOnce ==
    \A r \in DOMAIN pc :
        Finished(r) =>
            /\ Count(calls[r], "record") = 1
            /\ posted[r].source = result[r].source
            /\ posted[r].response = result[r].response

\* C4: a KB lookup that times out, is refused or comes back with a status
\* other than 200 sends the pipeline to the web lookup, never straight to an
\* error outcome; and of two requests with the same message that meet the
\* same search and history behaviour, one with such a KB failure and one
\* with a found=false reply, both make the same calls and return the same
\* source and response.
C4_KbFailureIsNotFound ==
    /\ \A r \in DOMAIN pc :
          KbFailed(kb_seen[r]) =>
             /\ calls[r] = <<"kb">> => pc[r] = "web_lookup"
             /\ result[r].source = "error" => "web" \in {calls[r][i] : i \in DOMAIN calls[r]}
    /\ \A a, b \in DOMAIN pc :
          ( /\ Finished(a) /\ Finished(b)
            /\ message[a] = message[b]
            /\ KbFailed(kb_seen[a]) /\ KbSaidNotFound(kb_seen[b])
            /\ search_seen[a] = search_seen[b]
            /\ hist_seen[a] = hist_seen[b] ) =>
             /\ calls[a] = calls[b]
             /\ result[a].source = result[b].source
             /\ result[a].response = result[b].response

C4_Witness ==
    /\ DOMAIN pc = TwinRequests
    /\ Finished("r1") /\ Finished("r2")
    /\ kb_seen["r1"].kind = "timeout" /\ KbSaidNotFound(kb_seen["r2"])
    /\ search_seen["r1"] = search_seen["r2"]
    /\ hist_seen["r1"] = hist_seen["r2"]
    /\ result["r1"].source = "web_search"
    /\ result["r2"].source = "web_search"

\* C5: every outcome has one of the four sources and a response that is a
\* non-empty text, for every reply of the KB and search services.
C5_ResponseNeverEmpty ==
    \A r \in DOMAIN pc :
        Finished(r) =>
            /\ result[r].source \in SourceKinds
            /\ result[r].response.t = "str"
            /\ result[r].response.s # << >>

\* C6: a request whose message is empty or whitespace only is refused by
\* /chat with an error reply, before any KB, search or history call.
C6_BlankMessageRejected ==
    \A r \in DOMAIN pc :
        IsBlank(message[r]) =>
            /\ pc[r] = "done"
            /\ result[r].kind = "http_error"
            /\ calls[r] = << >>
            /\ posted[r] = NoPayload

\* query has answered, and the store had returned candidates, the best at
\* distance d
Queried == query_result # NotQueried
BestDistanceIs(d) ==
    /\ ~store_results.raised
    /\ store_results.documents # << >>
    /\ store_results.distances[1] = d

\* C7 as stated: a best distance of exactly 0.7 is rejected (found=false).
C7_TieRejected ==
    (Queried /\ BestDistanceIs(SimilarityThreshold)) => query_result.found = FALSE

\* C7 as amended: a best distance of exactly 0.7 is accepted (found=true);
\* the match is rejected only when the best distance is strictly above 0.7.
C7_TieAccepted ==
    /\ (Queried /\ BestDistanceIs(SimilarityThreshold)) => query_result.found = TRUE
    /\ (Queried /\ ~store_results.raised /\ store_results.documents # << >>) =>
          (query_result.found = FALSE <=> store_results.distances[1] > SimilarityThreshold)

C7_Witness ==
    Queried /\ BestDistanceIs(SimilarityThreshold) /\ query_result.found = TRUE

\* C8: within one request the calls are the KB lookup once, then the web
\* lookup at most once, then the record step at most once, in that order
\* and without repetition; the web lookup is made only after the KB lookup
\* and never when the KB accepted.
C8_StagesOnceInOrder ==
    \A r \in DOMAIN pc :
        /\ calls[r] \in {<< >>, <<"kb">>, <<"kb", "web">>, <<"kb", "record">>,
                         <<"kb", "web", "record">>}
        /\ (Entered(r) /\ pc[r] # "kb_lookup") => Count(calls[r], "kb") = 1
        /\ pc[r] \in {"record", "return"} =>
              calls[r] \in {<<"kb">>, <<"kb", "web">>, <<"kb", "record">>,
                            <<"kb", "web", "record">>}
        /\ KbAccepted(kb_seen[r]) =>
              /\ Count(calls[r], "web") = 0
              /\ pc[r] # "web_lookup"

C8_Witness ==
    \E r \in DOMAIN pc :
        /\ Finished(r)
        /\ calls[r] = <<"kb", "web", "record">>
        /\ result[r].source = "web_search"

\* C9: when the history call succeeds, times out, is refused or is answered
\* with an error status, the caller gets the outcome with the response,
\* chat_id and source that were fixed before the call; the failure is not
\* visible and the source does not become 'error'.
C9_RecordFailureInvisible ==
    \A r \in DOMAIN pc :
        (pc[r] = "done" /\ hist_seen[r].kind \in {"reply", "timeout", "refused"}) =>
            /\ result[r].kind = "outcome"
            /\ result[r].status = 200
            /\ result[r].response = posted[r].response
            /\ result[r].chat_id = posted[r].chat_id
            /\ result[r].source = posted[r].source
            /\ result[r].source # "error"

C9_Witness ==
    \E r \in DOMAIN pc :
        /\ pc[r] = "done"
        /\ hist_seen[r].kind = "timeout"
        /\ result[r].source = "knowledge_base"
        /\ history = << >>

\* C10: the timestamp of the history record of a request is the timestamp
\* of the outcome returned for that request.
C10_SameTimestamp ==
    \A r \in DOMAIN pc :
        (Finished(r) /\ hist_seen[r].stored) =>
            /\ posted[r].timestamp = result[r].timestamp
            /\ \E i \in DOMAIN history :
                  /\ history[i].chat_id = result[r].chat_id
                  /\ history[i].timestamp = result[r].timestamp

\* C11: the history record written for a request has the chat_id, the
\* response and the source of the outcome returned for it, and the message
\* as the caller sent it.
C11_RecordMatchesOutcome ==
    \A r \in DOMAIN pc :
        (Finished(r) /\ hist_seen[r].stored) =>
            \E i \in DOMAIN history :
                /\ history[i].chat_id = result[r].chat_id
                /\ history[i].response = result[r].response
                /\ history[i].source = result[r].source
                /\ history[i].message = message[r]

C11_Witness ==
    \E r \in DOMAIN pc :
        /\ Finished(r)
        /\ hist_seen[r].stored
        /\ result[r].source = "web_search"
        /\ Len(history) = 1
        /\ history[1].source = "web_search"

\* the KB service was asked and its store raised inside query
StoreRaised == query_result # NotQueried /\ store_results.raised

SearchFailed(beh) == beh.kind \in Transport \/ (beh.kind = "reply" /\ beh.status # 200)

\* the history service answered (with any status) or could not be reached;
\* that is, the history call did not end in an exception that is no
\* transport failure
HistoryAnsweredOrUnreachable(beh) == beh.kind # "exception"

\* C13: when the KB call and the search call both fail (timeout, refused
\* connection or a status other than 200), the outcome has source 'fallback'
\* and the apology sentence as response, whether the history service
\* answers or cannot be reached.
C13_BothFailFallback ==
    \A r \in DOMAIN pc :
        ( /\ Finished(r)
          /\ KbFailed(kb_seen[r])
          /\ SearchFailed(search_seen[r])
          /\ HistoryAnsweredOrUnreachable(hist_seen[r]) ) =>
            /\ result[r].kind = "outcome"
            /\ result[r].source = "fallback"
            /\ result[r].response = Str(ApologyText)

C13_Witness ==
    \E r \in DOMAIN pc :
        /\ Finished(r)
        /\ kb_seen[r].kind = "timeout"
        /\ search_seen[r].kind = "reply" /\ search_seen[r].status # 200
        /\ hist_seen[r].kind = "refused"
        /\ result[r].source = "fallback"

\* the chunks of a text
Chunks(text) == {text[i] : i \in DOMAIN text}

\* C14: an outcome has source 'knowledge_base' exactly when the KB reply
\* accepted the match (found=true) -- outcomes of source 'error' aside --
\* and then no search call was made and the response is the answer of the
\* KB reply (the default sentence when the reply has no answer field); an
\* outcome of source 'web_search' comes from a search reply after a KB
\* lookup that did not accept, and its response is the text built from the
\* search reply and the message, with no KB text in it.
C14_OneSourcePerOutcome ==
    \A r \in DOMAIN pc :
        Finished(r) =>
            /\ result[r].source = "knowledge_base" =>
                  /\ KbAccepted(kb_seen[r])
                  /\ search_seen[r] = NoSearchCall
                  /\ Count(calls[r], "web") = 0
                  /\ result[r].response =
                        (IF "answer" \in kb_seen[r].body.keys
                         THEN kb_seen[r].body.answer
                         ELSE Str(CannotFormatText))
            /\ (KbAccepted(kb_seen[r]) /\ result[r].source # "error") =>
                  result[r].source = "knowledge_base"
            /\ result[r].source = "web_search" =>
                  /\ ~KbAccepted(kb_seen[r])
                  /\ search_seen[r].kind = "reply" /\ search_seen[r].status = 200
                  /\ result[r].response =
                        Str(FormatSearchResponse(search_seen[r].body, message[r]))
                  /\ "KB:" \notin Chunks(result[r].response.s)

C14_Witness ==
    \E r \in DOMAIN pc :
        /\ Finished(r)
        /\ result[r].source = "knowledge_base"
        /\ message[r] = Str(<<"a">>)
        /\ result[r].response = KbAnswerFor(message[r])
        /\ search_seen[r] = NoSearchCall

\* sub occurs in text from position i on
OccursAt(text, sub, i) ==
    /\ i + Len(sub) - 1 <= Len(text)
    /\ SubSeq(text, i, i + Len(sub) - 1) = sub

\* the positions in text where sub occurs
Occurrences(text, sub) == {i \in 1..Len(text) : OccursAt(text, sub, i)}

\* the store returned candidates and the best one is within the threshold
BestPasses ==
    /\ Queried
    /\ ~store_results.raised
    /\ store_results.documents # << >>
    /\ store_results.distances[1] <= SimilarityThreshold

\* C15: whenever the best candidate passes the threshold, query returns
\* found=true with 'sources' holding one entry per returned document, in
\* the store's order: entry i has rank i, the metadata of document i, the
\* similarity 1 - distance of document i and the text of document i (cut
\* to 200 characters plus "..." when longer); total_results is n; and the
\* answer starts with the top document and then holds an excerpt of every
\* further document, in order.
C15_AllCandidatesCarried ==
    BestPasses =>
        LET documents == store_results.documents
            n == Len(documents)
            answer == query_result.answer.s
        IN  /\ query_result.found
            /\ Len(query_result.sources) = n
            /\ query_result.total_results = n
            /\ \A i \in 1..n :
                  LET entry == query_result.sources[i] IN
                  /\ entry.rank = i
                  /\ entry.metadata = store_results.metadatas[i]
                  /\ entry.similarity_score = 100 - store_results.distances[i]
                  /\ Len(documents[i]) <= ContentLen => entry.content = documents[i]
                  /\ Len(documents[i]) > ContentLen =>
                        entry.content = SubSeq(documents[i], 1, ContentLen) \o <<"...">>
            /\ OccursAt(answer, documents[1], 1)
            /\ \A i \in 2..n :
                  \E at \in Occurrences(answer,
                                        SubSeq(documents[i], 1, MinOf(Len(documents[i]), ExcerptLen))
                                        \o <<"...">>) :
                      /\ at > Len(documents[1])
                      /\ i > 2 =>
                            \E before \in Occurrences(answer,
                                  SubSeq(documents[i - 1], 1,
                                         MinOf(Len(documents[i - 1]), ExcerptLen)) \o <<"...">>) :
                                before < at

C15_Witness ==
    /\ BestPasses
    /\ Len(store_results.documents) = 2
    /\ store_results.documents[1] = <<"d">>
    /\ store_results.documents[2] = LongDoc
    /\ store_results.distances = <<69, 70>>
    /\ query_result.found
    /\ query_result.sources[2].rank = 2
    /\ Len(query_result.sources[2].content) = ContentLen + 1

\* the store returned no documents for the query
StoreReturnedNothing ==
    /\ Queried
    /\ ~store_results.raised
    /\ store_results.documents = << >>

\* C16: whenever the store returns no documents for a query, query returns
\* found=false with a null answer and empty sources, and a chat request
\* that got this reply is at the web lookup or has made its search call,
\* and never has source 'knowledge_base'.
C16_NoDocumentsRejected ==
    StoreReturnedNothing =>
        /\ ~query_result.found
        /\ query_result.answer = Null
        /\ query_result.sources = << >>
        /\ \A r \in DOMAIN pc :
              kb_seen[r] # NoKbCall =>
                  /\ kb_seen[r].body = KbReplyBody(query_result)
                  /\ pc[r] = "web_lookup" \/ Count(calls[r], "web") = 1
                  /\ source[r] # "knowledge_base"
                  /\ result[r].kind = "outcome" => result[r].source # "knowledge_base"

C16_Witness ==
    /\ StoreReturnedNothing
    /\ \E r \in DOMAIN pc :
          /\ Finished(r)
          /\ calls[r] = <<"kb", "web", "record">>
          /\ kb_seen[r].body = KbReplyBody(query_result)
          /\ result[r].source = "web_search"

-----------------------------------------------------------------------------
(* Concurrent requests: "solo" runs alone from the initial state; then r1, *)
(* given the same request and the same collaborator replies, runs with     *)
(* its stages interleaved in every way with those of another request r2.   *)

ConcRequests == {"solo", "r1", "r2"}

ConcChatData ==
    {d \in ChatData :
        /\ d.kind = "object" /\ d.keys # {}
        /\ d.message \in {Str(<<"a">>), Num}
        /\ d.chat_id \in {Null, Str(<<"c1">>)}}

ConcKbBehaviours(m) ==
    {b \in KbBehaviours(m) :
        \/ b.kind = "timeout"
        \/ b.kind = "reply" /\ b.status = 200
           /\ b.body \in {KbDict({"found", "answer"}, FALSE, Null),
                          KbDict({"found", "answer"}, TRUE, KbAnswerFor(m))}}

ConcSearchBehaviours ==
    {b \in SearchBehaviours :
        \/ b.kind \in {"timeout", "exception"}
        \/ b.kind = "reply" /\ b.status = 200 /\ b.body.t = "dict" /\ Len(b.body.results) = 1}

ConcHistoryBehaviours ==
    {b \in HistoryBehaviours :
        \/ b.kind = "reply" /\ b.status \in {201, 500}
        \/ b.kind = "timeout" /\ b.stored
        \/ b.kind = "exception"}

\* the chat_id the caller sent, for the chat_id the request ended up with
SentChatId(cid) == IF cid \in ChatIds THEN cid ELSE Null

InitConc ==
    /\ InitChat(ConcRequests)
    /\ store_results = NoStoreResults
    /\ query_result = NotQueried

NextConc ==
    \/ \E data \in ConcChatData : Chat("solo", data)
    \/ \E beh \in ConcKbBehaviours(message["solo"]) : KbLookup("solo", beh)
    \/ \E beh \in ConcSearchBehaviours : WebLookup("solo", beh)
    \/ \E beh \in ConcHistoryBehaviours : Record("solo", beh)
    \/ Return("solo")
    \/ /\ pc["solo"] = "done"
       /\ Chat("r1", [kind |-> "object", keys |-> {"message", "chat_id"},
                      message |-> message["solo"],
                      chat_id |-> SentChatId(chat_id["solo"])])
    \/ \E beh \in Replay(kb_seen["solo"], NoKbCall, ConcKbBehaviours(message["r1"])) :
            KbLookup("r1", beh)
    \/ \E beh \in Replay(search_seen["solo"], NoSearchCall, ConcSearchBehaviours) :
            WebLookup("r1", beh)
    \/ \E beh \in Replay(hist_seen["solo"], NoHistoryCall, ConcHistoryBehaviours) :
            Record("r1", beh)
    \/ Return("r1")
    \/ /\ pc["solo"] = "done"
       /\ \E data \in ConcChatData : Chat("r2", data)
    \/ \E beh \in ConcKbBehaviours(message["r2"]) : KbLookup("r2", beh)
    \/ \E beh \in ConcSearchBehaviours : WebLookup("r2", beh)
    \/ \E beh \in ConcHistoryBehaviours : Record("r2", beh)
    \/ Return("r2")

SpecConc == InitConc /\ [][NextConc]_vars

\* the requests whose insert took place
Inserted == {r \in DOMAIN pc : hist_seen[r].stored}

\* the collection holds one record per request whose insert took place, the
\* record that request posted
OneRecordPerInsert ==
    /\ Len(history) = Cardinality(Inserted)
    /\ \E f \in [Inserted -> DOMAIN history] :
          /\ \A r1, r2 \in Inserted : f[r1] = f[r2] => r1 = r2
          /\ \A r \in Inserted :
                /\ history[f[r]].chat_id = posted[r].chat_id
                /\ history[f[r]].message = posted[r].message
                /\ history[f[r]].response = posted[r].response
                /\ history[f[r]].source = posted[r].source
                /\ history[f[r]].timestamp = posted[r].timestamp

\* C17: a request whose stages interleave with those of another request
\* (of the same or another chat_id) ends with the outcome it gets when run
\* alone against the same replies -- same status, response and source, and
\* the same chat_id when the caller sent one, a generated one otherwise --
\* and the history collection holds exactly one record per request whose
\* insert took place: none lost, duplicated or merged.
C17_ConcurrentIndependent ==
    /\ (pc["solo"] = "done" /\ pc["r1"] = "done") =>
          /\ result["r1"].kind = result["solo"].kind
          /\ result["r1"].status = result["solo"].status
          /\ result["r1"].response = result["solo"].response
          /\ result["r1"].source = result["solo"].source
          /\ calls["r1"] = calls["solo"]
          /\ posted["r1"].response = posted["solo"].response
          /\ IF Truthy(SentChatId(chat_id["solo"]))
             THEN result["r1"].chat_id = result["solo"].chat_id
             ELSE result["r1"].chat_id \notin ChatIds \cup {result["solo"].chat_id}
    /\ OneRecordPerInsert

C17_Witness ==
    /\ \A r \in ConcRequests : Finished(r)
    /\ Inserted = ConcRequests
    /\ chat_id["r1"] = Str(<<"c1">>) /\ chat_id["r2"] = Str(<<"c1">>)
    /\ result["r1"].source = "web_search"
    /\ result["r2"].source = "knowledge_base"
    /\ history[2].source = "knowledge_base"
    /\ history[3].source = "web_search"
    /\ Len(history) = 3

-----------------------------------------------------------------------------------------------------------------------------------------------------
(* The history service with its clients: POST /history by a client,        *)
(* GET /history/<chat_id>, and a chat request storing its interaction.     *)

MaxRecords == 2

\* POST /history by a client (add_history, lines 113-140)
AddHistory(data, service) ==
    /\ LET status == AddHistoryStatus(data, service)
       IN  /\ status = 201 => Len(history) < MaxRecords
           /\ added' = [data |-> data, status |-> status]
           /\ history' = IF status = 201
                         THEN InsertOne(history, Interaction(data.keys, data, clock))
                         ELSE history
    /\ UNCHANGED <<reqvars, uuid_next, clock, kbvars, fetched, search_run>>

\* GET /history/<chat_id> (lines 142-157 and get_history, lines 74-85)
FetchHistory(cid, service) ==
    /\ \E history_list \in SortDescending(Find(history, cid)) :
          fetched' = GetHistoryReply(cid, GetHistory(history_list, service), service)
    /\ UNCHANGED <<chatvars, kbvars, added, search_run>>

\* the chat requests that store: the KB lookup accepts, then the record
HistChatData ==
    {d \in ChatData : d.kind = "object" /\ d.keys # {}
                      /\ d.message = Str(<<"a">>) /\ d.chat_id = Str(<<"c1">>)}

HistKbBehaviours(m) ==
    {b \in KbBehaviours(m) :
        b.kind = "reply" /\ b.status = 200
        /\ b.body = KbDict({"found", "answer"}, TRUE, KbAnswerFor(m))}

HistHistoryBehaviours ==
    {b \in HistoryBehaviours :
        \/ b.kind = "reply" /\ b.status \in {201, 500}
        \/ b.kind = "timeout" /\ b.stored}

FetchedChats == {Str(<<"c1">>), OtherChat}

InitHistory ==
    /\ InitChat(Requests)
    /\ store_results = NoStoreResults
    /\ query_result = NotQueried

NextHistory ==
    \/ \E data \in HistoryPosts : \E service \in ServiceStates : AddHistory(data, service)
    \/ \E cid \in FetchedChats : \E service \in ServiceStates : FetchHistory(cid, service)
    \/ \E r \in DOMAIN pc : \E data \in HistChatData : Chat(r, data)
    \/ \E r \in DOMAIN pc : \E beh \in HistKbBehaviours(message[r]) : KbLookup(r, beh)
    \/ \E r \in DOMAIN pc : \E beh \in HistHistoryBehaviours : Record(r, beh)
    \/ \E r \in DOMAIN pc : Return(r)

SpecHistory == InitHistory /\ [][NextHistory]_vars

-----------------------------------------------------------------------------
(* Two chat requests of one chat_id, the second made after the first has   *)
(* returned, and fetches of that chat_id.                                  *)

OrderRequests == {"r1", "r2"}

InitOrder ==
    /\ InitChat(OrderRequests)
    /\ store_results = NoStoreResults
    /\ query_result = NotQueried

NextOrder ==
    \/ \E data \in HistChatData : Chat("r1", data)
    \/ /\ pc["r1"] = "done"
       /\ \E data \in HistChatData : Chat("r2", data)
    \/ \E r \in DOMAIN pc : \E beh \in HistKbBehaviours(message[r]) : KbLookup(r, beh)
    \/ \E r \in DOMAIN pc : \E beh \in HistHistoryBehaviours : Record(r, beh)
    \/ \E r \in DOMAIN pc : Return(r)
    \/ \E service \in ServiceStates : FetchHistory(Str(<<"c1">>), service)
    \/ Tick

SpecOrder == InitOrder /\ [][NextOrder]_vars

-----------------------------------------------------------------------------
(* Properties of the history service *)

\* the method get_history returned a list
MethodReturned(f) == f.result.success

\* C18 as stated, for what the method get_history returns: of two requests
\* of one chat_id, the second processed after the first has returned, a
\* fetch that returns both records returns the later one (the second
\* document inserted) before the earlier one.
C18_LaterFirst ==
    (MethodReturned(fetched) /\ Len(fetched.result.history) = 2) =>
        /\ fetched.result.history[1].id.n = 2
        /\ fetched.result.history[2].id.n = 1

\* list holds exactly the documents of the collection with this chat_id,
\* each once and with its fields as stored, timestamps descending
ExactlyStored(list, collection, cid) ==
    LET ids == {i \in DOMAIN collection : collection[i].chat_id = cid}
    IN  /\ Len(list) = Cardinality(ids)
        /\ {list[k].id.n : k \in DOMAIN list} = ids
        /\ \A k \in DOMAIN list :
              LET doc == collection[list[k].id.n] IN
              /\ list[k].chat_id = cid
              /\ list[k].message = doc.message
              /\ list[k].response = doc.response
              /\ list[k].source = doc.source
              /\ list[k].timestamp = doc.timestamp
        /\ \A k \in 1..(Len(list) - 1) : list[k].timestamp >= list[k + 1].timestamp

\* C19 as stated, for the fetch a client makes: when the service is up and
\* the lookup does not fail, GET /history/<chat_id> answers 200 with
\* exactly the records stored under that chat_id, timestamps descending.
C19_FetchReturnsStored ==
    [][(fetched' # fetched /\ fetched'.served) =>
          /\ fetched'.status = 200
          /\ ExactlyStored(fetched'.body, history, fetched'.chat_id)]_vars

\* the same for the method HistoryService.get_history alone: the list it
\* returns holds exactly the records stored under the chat_id
GetHistoryReturnsStored ==
    [][(fetched' # fetched /\ MethodReturned(fetched')) =>
          ExactlyStored(fetched'.result.history, history, fetched'.chat_id)]_vars

\* C20: the history collection is an append-only log: no step updates or
\* deletes a record (the collection before the step is a prefix of the
\* collection after it), a fetch changes nothing, a POST that is refused
\* or fails adds nothing, and a step that changes the collection adds one
\* record, the one of a POST that has chat_id, message and response and
\* was answered 201, or of a chat request whose insert took place, with
\* the chat_id, message, response, source and timestamp posted.
C20_AppendOnly ==
    [][/\ Len(history') >= Len(history)
       /\ SubSeq(history', 1, Len(history)) = history
       /\ Len(history') <= Len(history) + 1
       /\ fetched' # fetched => history' = history
       /\ (added' # added /\ added'.status # 201) => history' = history
       /\ \A r \in DOMAIN pc :
             (hist_seen'[r] # hist_seen[r] /\ ~hist_seen'[r].stored) => history' = history
       /\ history' # history =>
             LET doc == history'[Len(history')] IN
             \/ /\ added'.status = 201
                /\ {"chat_id", "message", "response"} \subseteq added'.data.keys
                /\ doc.chat_id = added'.data.chat_id
                /\ doc.message = added'.data.message
                /\ doc.response = added'.data.response
                /\ "source" \in added'.data.keys => doc.source = added'.data.source
                /\ "timestamp" \in added'.data.keys => doc.timestamp = added'.data.timestamp
             \/ \E r \in DOMAIN pc :
                   /\ pc[r] = "record" /\ hist_seen'[r].stored
                   /\ doc.chat_id = posted'[r].chat_id
                   /\ doc.message = posted'[r].message
                   /\ doc.response = posted'[r].response
                   /\ doc.source = posted'[r].source
                   /\ doc.timestamp = posted'[r].timestamp]_vars

C20_Witness ==
    /\ Len(history) = 2
    /\ history[1].chat_id = Str(<<"c1">>)
    /\ history[2].chat_id = OtherChat
    /\ history[2].source = "unknown"
    /\ added.status = 400
    /\ fetched.chat_id = OtherChat /\ MethodReturned(fetched)
    /\ Len(fetched.result.history) = 1

-----------------------------------------------------------------------------
(* Termination.  Each collaborator call is a requests.post with a timeout  *)
(* (lines 92, 106, 148), so it ends -- with a reply, a timeout or another  *)
(* exception -- and the thread serving the request goes on: the steps of   *)
(* a request that is under way are weakly fair.                            *)

Progress ==
    \/ \E r \in DOMAIN pc : \E beh \in KbBehaviours(message[r]) : KbLookup(r, beh)
    \/ \E r \in DOMAIN pc : \E beh \in SearchBehaviours : WebLookup(r, beh)
    \/ \E r \in DOMAIN pc : \E beh \in HistoryBehaviours : Record(r, beh)
    \/ \E r \in DOMAIN pc : Return(r)

SpecFair == Init /\ [][Next]_vars /\ WF_vars(Progress)

\* a timeout of one call fails that call only: after a KB timeout the web
\* lookup is next, after a search timeout the apology is recorded, after a
\* timeout of the history POST the outcome decided before is returned
TimeoutIsCallFailure ==
    \A r \in Requests :
        /\ kb_seen[r].kind = "timeout" =>
              pc[r] = "web_lookup" \/ Count(calls[r], "web") = 1
        /\ search_seen[r].kind = "timeout" =>
              /\ source[r] = "fallback"
              /\ response_text[r] = Str(ApologyText)
              /\ pc[r] = "record" \/ Count(calls[r], "record") = 1
        /\ hist_seen[r].kind = "timeout" =>
              /\ pc[r] \in {"return", "done"}
              /\ pc[r] = "done" =>
                    /\ result[r].kind = "outcome"
                    /\ result[r].source = source[r] /\ source[r] # "error"
                    /\ result[r].response = response_text[r]

\* C21: every request that entered process_message eventually returns an
\* outcome, given that every collaborator call ends (reply, timeout or
\* exception); and a timeout is the failure of that call only, never the
\* error outcome of the pipeline.
C21_EveryRequestReturns ==
    /\ \A r \in Requests :
          (pc[r] \in {"kb_lookup", "web_lookup", "record", "return"})
              ~> (pc[r] = "done" /\ result[r].kind = "outcome")
    /\ []TimeoutIsCallFailure

C21_Witness ==
    \E r \in DOMAIN pc :
        /\ Finished(r)
        /\ kb_seen[r].kind = "timeout"
        /\ search_seen[r].kind = "timeout"
        /\ hist_seen[r].kind = "timeout"
        /\ result[r].source = "fallback"

-----------------------------------------------------------------------------
(* Conversation identity: request "given" sends a chat_id (with a leading  *)
(* blank, which no validation would let through unchanged), "anon1" sends  *)
(* none and "anon2" sends an empty one; their stages interleave freely.    *)

IdRequests == {"given", "anon1", "anon2"}

GivenChatId == Str(<<" ", "c1">>)

\* what each of the requests sends as chat_id
SentBy(r) ==
    CASE r = "given" -> GivenChatId
      [] r = "anon1" -> Null
      [] OTHER -> Str(<< >>)

IdChatData(r) ==
    [kind |-> "object", keys |-> {"message", "chat_id"},
     message |-> Str(<<"a">>), chat_id |-> SentBy(r)]

InitIds ==
    /\ InitChat(IdRequests)
    /\ store_results = NoStoreResults
    /\ query_result = NotQueried

NextIds ==
    \/ \E r \in IdRequests : Chat(r, IdChatData(r))
    \/ \E r \in IdRequests : \E beh \in ConcKbBehaviours(message[r]) : KbLookup(r, beh)
    \/ \E r \in IdRequests : \E beh \in ConcSearchBehaviours : WebLookup(r, beh)
    \/ \E r \in IdRequests : \E beh \in ConcHistoryBehaviours : Record(r, beh)
    \/ \E r \in IdRequests : Return(r)

SpecIds == InitIds /\ [][NextIds]_vars

\* the identities process_message generated so far
Generated == {chat_id[r] : r \in {q \in DOMAIN pc : pc[q] # "idle" /\ ~Truthy(SentBy(q))}}

\* C22: a request that sent a non-empty chat_id keeps exactly that chat_id
\* in process_message, in the outcome (the error outcome too) and in the
\* history record; a request that sent none, or an empty one, gets a
\* generated identity, different from what it sent, from the identity of
\* every other request that got one and from the chat_id supplied, and the
\* outcome and the record carry the generated one.
C22_IdentityAssignment ==
    \A r \in DOMAIN pc :
        pc[r] # "idle" =>
            /\ Truthy(SentBy(r)) => chat_id[r] = SentBy(r)
            /\ ~Truthy(SentBy(r)) =>
                  /\ Truthy(chat_id[r])
                  /\ chat_id[r] # GivenChatId
                  /\ \A q \in DOMAIN pc \ {r} :
                        (pc[q] # "idle" /\ ~Truthy(SentBy(q))) => chat_id[q] # chat_id[r]
            /\ pc[r] = "done" =>
                  /\ result[r].kind = "outcome"
                  /\ result[r].chat_id = chat_id[r]
            /\ Count(calls[r], "record") = 1 => posted[r].chat_id = chat_id[r]
            /\ hist_seen[r].stored =>
                  \E i \in DOMAIN history :
                      /\ history[i].chat_id = chat_id[r]
                      /\ history[i].response = posted[r].response

C22_Witness ==
    /\ \A r \in IdRequests : Finished(r)
    /\ hist_seen["given"].stored /\ hist_seen["anon2"].stored
    /\ result["given"].chat_id = GivenChatId
    /\ Cardinality(Generated) = 2
    /\ Cardinality({history[i].chat_id : i \in DOMAIN history}) = 2
    /\ result["anon1"].source = "error"

-----------------------------------------------------------------------------
(* The text of a knowledge answer *)

\* the category tag of a document
CategoryTag(metadata) ==
    <<"[">> \o (IF "category" \in metadata.keys THEN metadata.category ELSE <<"General">>)
    \o <<"] ">>

\* the first 150 characters of a text
First150(doc) == SubSeq(doc, 1, IF Len(doc) < ExcerptLen THEN Len(doc) ELSE ExcerptLen)

SectionHeader == <<"\n\n", "Additional related information:", "\n">>

\* the excerpts of documents i..n, one per line, each: tag, first 150
\* characters, and the marker (always when marked, else when cut)
RECURSIVE ExcerptLines(_, _, _, _)
ExcerptLines(documents, metadatas, i, marked) ==
    IF i > Len(documents) THEN << >>
    ELSE (IF i > 2 THEN <<"\n">> ELSE << >>)
         \o CategoryTag(metadatas[i]) \o First150(documents[i])
         \o (IF marked \/ Len(documents[i]) > ExcerptLen THEN <<"...">> ELSE << >>)
         \o ExcerptLines(documents, metadatas, i + 1, marked)

\* the answer query built for an accepted match with further documents
AnswerWithExcerpts ==
    /\ BestPasses
    /\ Len(store_results.documents) > 1

\* C23 as stated: in the answer the excerpt of a further document ends with
\* '...' only when the document is longer than 150 characters; a shorter
\* one appears in full, without the marker.
C23_MarkerOnlyIfShortened ==
    AnswerWithExcerpts =>
        query_result.answer.s =
            store_results.documents[1] \o SectionHeader
            \o ExcerptLines(store_results.documents, store_results.metadatas, 2, FALSE)

-----------------------------------------------------------------------------
(* The text of a web answer *)

\* the search reply of request r was a dict with n >= 1 results and the
\* request returned the text made from it
WebAnswer(r) ==
    /\ Finished(r)
    /\ result[r].source = "web_search"
    /\ search_seen[r].kind = "reply" /\ search_seen[r].status = 200
    /\ search_seen[r].body.t = "dict"
    /\ Len(search_seen[r].body.results) >= 1

\* text has, from position at on, these chunks
HasAt(text, at, chunks) ==
    /\ at >= 1
    /\ at + Len(chunks) - 1 <= Len(text)
    /\ \A k \in DOMAIN chunks : text[at + k - 1] = chunks[k]

\* the chunks of result i as rendered: number, title, snippet and, with a
\* non-empty url, the source line
Rendered(i, res) ==
    <<ToString(i), ". **">> \o res.title \o <<"**", "\n", "   ">> \o res.snippet
    \o (IF "url" \in res.keys /\ res.url # << >>
        THEN <<"\n", "   ", "Source: ">> \o res.url
        ELSE << >>)

\* C25: the text made from a search reply with n >= 1 results renders the
\* first min(n,3) results and nothing else: result i is rendered after
\* result i-1 as "i. **title**", its snippet and, only when its url is not
\* empty, a 'Source:' line; no title, snippet or url of a later result is
\* in the text, and there are as many 'Source:' lines as rendered results
\* with a url.
C25_TopThreeRendered ==
    \A r \in DOMAIN pc :
        WebAnswer(r) =>
            LET results == search_seen[r].body.results
                text == result[r].response.s
                shown == IF Len(results) < 3 THEN Len(results) ELSE 3
                Place(i) == {at \in DOMAIN text : HasAt(text, at, Rendered(i, results[i]))}
            IN  /\ \A i \in 1..shown : Cardinality(Place(i)) = 1
                /\ \A i \in 2..shown :
                      \A at \in Place(i) : \A before \in Place(i - 1) : before < at
                /\ \A i \in (shown + 1)..Len(results) :
                      (Chunks(results[i].title) \cup Chunks(results[i].snippet)
                          \cup Chunks(results[i].url)) \cap Chunks(text) = {}
                /\ Count(text, "Source: ") =
                      Cardinality({i \in 1..shown :
                                      "url" \in results[i].keys /\ results[i].url # << >>})
                /\ Count(text, ". **") = shown

C25_Witness ==
    \E r \in DOMAIN pc :
        /\ WebAnswer(r)
        /\ Len(search_seen[r].body.results) = 4
        /\ Count(result[r].response.s, "T3") = 1
        /\ Count(result[r].response.s, "Source: ") = 2

-----------------------------------------------------------------------------
(* GET /search: the endpoint, SearchService.search and its stages *)

\* one call of the live backend: the stage, the query string sent, and how
\* many results the stage gave back
Sent(stage, q, yielded) == [stage |-> stage, q |-> q, yielded |-> yielded]

\* web_search (lines 266-287) up to the first call of the backend, with
\* lines 40-49 of search; an empty text stands for an absent parameter too
WebSearch(query, param) ==
    /\ search_run.pc = "idle"
    /\ LET stripped == Strip(query)
           max_results == EffectiveMaxResults(param)
           clean_query == SanitizeQuery(stripped)
       IN  search_run' =
              IF query = << >> \/ stripped = << >>
              THEN SearchRun("done", query, 0, << >>, << >>, SearchReply(400, FALSE, << >>))
              ELSE IF clean_query = << >>
              THEN SearchRun("done", stripped, max_results, clean_query, << >>,
                             SearchReply(200, FALSE, << >>))
              ELSE SearchRun("api", stripped, max_results, clean_query, << >>, NoSearchReply)
    /\ UNCHANGED <<chatvars, kbvars, histvars>>

\* the rest of search once the live lookup is over (lines 53-64)
Answer(run, sent, results) ==
    LET final == IF results = << >> THEN MockResults(run.query) ELSE results
    IN  SearchRun("done", run.query, run.max_results, run.clean, sent,
                  SearchReply(200, TRUE, final))

\* _search_duckduckgo: the call of the instant-answer API (lines 87-135)
ApiStage(beh) ==
    /\ search_run.pc = "api"
    /\ LET results == ApiResults(beh, search_run.max_results)
           sent == Append(search_run.sent, Sent("api", search_run.clean, Len(results)))
       IN  search_run' =
              IF results # << >> \/ beh.kind = "error"
              THEN Answer(search_run, sent, results)
              ELSE [search_run EXCEPT !.pc = "html", !.sent = sent]
    /\ UNCHANGED <<chatvars, kbvars, histvars>>

\* _search_duckduckgo_html (lines 137-173)
HtmlStage(beh) ==
    /\ search_run.pc = "html"
    /\ LET results == HtmlResults(beh, search_run.max_results)
           sent == Append(search_run.sent, Sent("html", search_run.clean, Len(results)))
       IN  search_run' = Answer(search_run, sent, results)
    /\ UNCHANGED <<chatvars, kbvars, histvars>>

InitSearch ==
    /\ InitChat(Requests)
    /\ store_results = NoStoreResults
    /\ query_result = NotQueried

NextSearch ==
    \/ \E query \in Queries : \E param \in MaxResultsParams : WebSearch(query, param)
    \/ \E beh \in ApiBehaviours : ApiStage(beh)
    \/ \E beh \in HtmlBehaviours : HtmlStage(beh)

SpecSearch == InitSearch /\ [][NextSearch]_vars

-----------------------------------------------------------------------------
(* Properties of the search service *)

\* search was called with a query that sanitised to a non-empty string and
\* has replied
SearchAnswered == search_run.pc = "done" /\ search_run.clean # << >>

\* C26 as stated: the reply never has more results than the effective
\* max_results of the request, which lies in 1..10.
C26_AtMostMaxResults ==
    SearchAnswered =>
        /\ search_run.max_results \in 1..10
        /\ Len(search_run.reply.results) <= search_run.max_results

LiveTags == {"DuckDuckGo Instant Answer", "DuckDuckGo Related Topic", "DuckDuckGo Search"}
MockTag == "Mock Search Result"

\* the stages of the live lookup called so far, in order
StagesCalled == [i \in DOMAIN search_run.sent |-> search_run.sent[i].stage]

\* C28: a query that sanitises to a non-empty string is answered
\* success=true with at least one result, whatever the backend did; the
\* API is called first, the HTML page only after the API gave nothing, and
\* the results are those of the last stage called when it gave any, mock
\* results only when every stage called gave nothing.
C28_AlwaysSomeResult ==
    /\ StagesCalled \in {<< >>, <<"api">>, <<"api", "html">>}
    /\ \A i \in DOMAIN search_run.sent :
          i < Len(search_run.sent) => search_run.sent[i].yielded = 0
    /\ search_run.pc = "html" => search_run.sent[Len(search_run.sent)].yielded = 0
    /\ SearchAnswered =>
          LET results == search_run.reply.results
              last == search_run.sent[Len(search_run.sent)]
          IN  /\ search_run.reply.status = 200
              /\ search_run.reply.success
              /\ Len(results) >= 1
              /\ search_run.reply.total_results = Len(results)
              /\ search_run.sent # << >>
              /\ IF last.yielded > 0
                 THEN /\ Len(results) = last.yielded
                      /\ \A k \in DOMAIN results : results[k].source \in LiveTags
                 ELSE \A k \in DOMAIN results : results[k].source = MockTag

C28_Witness ==
    /\ SearchAnswered
    /\ StagesCalled = <<"api", "html">>
    /\ search_run.sent[2].yielded = 0
    /\ search_run.reply.success
    /\ Len(search_run.reply.results) = 3
    /\ search_run.query = <<"a", "I", "!">>

\* the characters a sanitised query may hold
Sanitised(q) ==
    /\ q # << >>
    /\ Len(q) <= QueryCap
    /\ \A i \in DOMAIN q : IsWordChar(q[i]) \/ q[i] \in {" ", "-", "+"}
    /\ \A i \in 1..(Len(q) - 1) : ~(q[i] = " " /\ q[i + 1] = " ")

\* C29: every query string sent to the live backend is sanitised: only
\* word characters, single blanks, '-' and '+', at most 200 characters,
\* not empty; and a query of which sanitising leaves nothing is answered
\* success=false with no results and without any call of the backend.
C29_OnlySanitisedForwarded ==
    /\ \A i \in DOMAIN search_run.sent : Sanitised(search_run.sent[i].q)
    /\ (search_run.pc # "idle" /\ search_run.reply.status # 400
        /\ \A i \in DOMAIN search_run.query : ~Kept(search_run.query[i])) =>
          /\ search_run.pc = "done"
          /\ search_run.sent = << >>
          /\ ~search_run.reply.success
          /\ search_run.reply.results = << >>

C29_Witness ==
    /\ search_run.pc = "done"
    /\ search_run.query = LongSpacedQuery
    /\ Len(search_run.sent) = 2
    /\ Len(search_run.sent[2].q) = QueryCap
    /\ search_run.sent[2].q[QueryCap - 1] = " "
    /\ search_run.sent[2].q[QueryCap] = "a"

\* C30: a reply holds either live results only, each with one of the live
\* source tags, or mock results only, each with the tag 'Mock Search
\* Result', which no live result has; and it holds mock results only when
\* no stage of the live lookup gave a result.
C30_MockDistinguishable ==
    /\ MockTag \notin LiveTags
    /\ SearchAnswered =>
          LET results == search_run.reply.results
              live == {k \in DOMAIN results : results[k].source \in LiveTags}
              mock == {k \in DOMAIN results : results[k].source = MockTag}
              gave == {i \in DOMAIN search_run.sent : search_run.sent[i].yielded > 0}
          IN  /\ live \cup mock = DOMAIN results
              /\ live = {} \/ mock = {}
              /\ mock # {} <=> gave = {}
              /\ live # {} => Cardinality(live) = search_run.sent[Len(search_run.sent)].yielded

C30_Witness ==
    /\ SearchAnswered
    /\ StagesCalled = <<"api">>
    /\ search_run.sent[1].yielded = 0
    /\ Len(search_run.reply.results) = 2
    /\ \A k \in DOMAIN search_run.reply.results :
          search_run.reply.results[k].source = MockTag

-----------------------------------------------------------------------------
(* Similarity scores *)

\* C27 as stated: every entry of 'sources' of an accepted match has a
\* similarity_score within [0,1] (0..100 in hundredths).
C27_ScoreInUnitRange ==
    (Queried /\ query_result.found) =>
        \A i \in DOMAIN query_result.sources :
            /\ query_result.sources[i].similarity_score >= 0
            /\ query_result.sources[i].similarity_score <= 100

====
